---- MODULE Spec2Model ----
(***************************************************************************)
(* A model of async_request.Request: a client object holding default      *)
(* headers and a timeout, whose request() runs _request() to completion.  *)
(* _request() builds a dict of five coroutine objects (one per verb, each *)
(* with a session of its own), selects one by method.lower() and hands it *)
(* to asyncio.gather.  The timeout setter is a second thread of control   *)
(* that may run between any two steps of a request() call.                *)
(*                                                                         *)
(* Strings that the code converts (the method, the response body) are     *)
(* tuples of one-character strings, so that lower() and JSON decoding are *)
(* computed.  Python values are records [type, items].                    *)
(***************************************************************************)
EXTENDS Integers, Sequences, FiniteSets, TLC

VARIABLES
    request_timeout,  \* self.request_timeout
    session_timeout,  \* self.session_timeout
    nsets,            \* number of timeout-setter calls so far
    ncalls,           \* number of request() calls so far
    pc,               \* position of the current request() call
    args,             \* the arguments of the current request() call
    start_timeout,    \* self.request_timeout when the current call began
    idx,              \* the dict entry being evaluated (1..5)
    sessions,         \* the sessions the current call created, in order
    leaked,           \* sessions of earlier calls that were never closed
    coros,            \* the dict literal built so far: key -> coroutine
    aws,              \* the awaitables handed to asyncio.gather
    cur,              \* the awaitable being run
    results,          \* what the awaitables run so far returned
    netlog,           \* the transport's record of the current call
    response,         \* the response being read
    result            \* how the current call ended

vars == <<request_timeout, session_timeout, nsets, ncalls, pc, args,
          start_timeout, idx, sessions, leaked, coros, aws, cur, results,
          netlog, response, result>>

---------------------------------------------------------------------------
(* Bounds of the model *)

MaxCalls == 2
MaxSets == 1

---------------------------------------------------------------------------
(* Python values *)

None == [type |-> "NoneType", items |-> <<>>]
PyInt(n) == [type |-> "int", items |-> <<n>>]
PyDict(k, v) == [type |-> "dict", items |-> <<k, v>>]
PyList(xs) == [type |-> "list", items |-> xs]

UpperChars == <<"A","B","C","D","E","F","G","H","I","J","K","L","M",
                "N","O","P","Q","R","S","T","U","V","W","X","Y","Z">>
LowerChars == <<"a","b","c","d","e","f","g","h","i","j","k","l","m",
                "n","o","p","q","r","s","t","u","v","w","x","y","z">>

LowerChar(c) ==
    IF \E i \in 1..26 : UpperChars[i] = c
    THEN LowerChars[CHOOSE i \in 1..26 : UpperChars[i] = c]
    ELSE c

LowerIdentity(s) == s

\* str.lower()
Lower(s) == [i \in 1..Len(s) |-> LowerChar(s[i])]

DictGetOrFirst(d, key) ==
    IF key \in DOMAIN d THEN d[key] ELSE d[<<"g","e","t">>]

\* dict.get(key): the value, or None for a missing key
DictGet(d, key) == IF key \in DOMAIN d THEN d[key] ELSE None

Digits == <<"0","1","2","3","4","5","6","7","8","9">>
IsDigit(c) == \E i \in 1..10 : Digits[i] = c
DigitVal(c) == (CHOOSE i \in 1..10 : Digits[i] = c) - 1

\* response.json(): the decoded body, or a failure for a body that is not JSON.
\* The grammar is cut to one-digit numbers and one-pair objects with a
\* one-letter key.
JsonDecode(t) ==
    IF Len(t) = 1 /\ IsDigit(t[1])
    THEN [ok |-> TRUE, value |-> PyInt(DigitVal(t[1]))]
    ELSE IF /\ Len(t) = 7
            /\ t[1] = "{" /\ t[2] = "\"" /\ t[4] = "\"" /\ t[5] = ":"
            /\ IsDigit(t[6]) /\ t[7] = "}"
    THEN [ok |-> TRUE, value |-> PyDict(t[3], DigitVal(t[6]))]
    ELSE [ok |-> FALSE, value |-> None]

---------------------------------------------------------------------------
(* The client object *)

DefaultTotal == 120

\* aiohttp.ClientTimeout(total=value)
ClientTimeout(value) == [total |-> value]

\* self.header
header == ("Connection" :> "keep-alive") @@ ("Authorization" :> "bear your token")

\* The order in which the dict literal of _request evaluates its entries.
VerbKeys == << <<"g","e","t">>, <<"p","o","s","t">>, <<"p","u","t">>,
               <<"p","a","t","c","h">>, <<"d","e","l","e","t","e">> >>

\* The keywords each call site of _request gives explicitly; a key of
\* **kwargs among them is "got multiple values for keyword argument".
ExplicitKeywords(i) ==
    CASE i = 1 -> {"session", "url", "params", "headers", "timeout"}
      [] i = 2 -> {"session", "url", "data", "json", "headers", "timeout"}
      [] i = 3 -> {"session", "url", "data", "headers", "timeout"}
      [] i = 4 -> {"session", "url", "data", "headers", "timeout"}
      [] i = 5 -> {"session", "url", "headers", "timeout"}

---------------------------------------------------------------------------
(* The five senders.  Each operator is the coroutine object its call site *)
(* creates: the transport request the sender issues once it is awaited.   *)

_get(session, timeout, a) ==
    [verb |-> "GET", session |-> session, url |-> a.url,
     params |-> a.params, data |-> None, json |-> None,
     headers |-> header, timeout |-> timeout, kwargs |-> a.kwargs]

_post(session, timeout, a) ==
    [verb |-> "POST", session |-> session, url |-> a.url,
     params |-> None, data |-> a.data, json |-> a.json,
     headers |-> header, timeout |-> timeout, kwargs |-> a.kwargs]

_put_with_json(session, timeout, a) ==
    [verb |-> "PUT", session |-> session, url |-> a.url,
     params |-> None, data |-> a.data, json |-> a.json,
     headers |-> header, timeout |-> timeout, kwargs |-> a.kwargs]

_put(session, timeout, a) ==
    [verb |-> "PUT", session |-> session, url |-> a.url,
     params |-> None, data |-> a.data, json |-> None,
     headers |-> header, timeout |-> timeout, kwargs |-> a.kwargs]

_patch(session, timeout, a) ==
    [verb |-> "PATCH", session |-> session, url |-> a.url,
     params |-> None, data |-> a.data, json |-> None,
     headers |-> header, timeout |-> timeout, kwargs |-> a.kwargs]

_delete(session, timeout, a) ==
    [verb |-> "DELETE", session |-> session, url |-> a.url,
     params |-> None, data |-> None, json |-> None,
     headers |-> header, timeout |-> timeout, kwargs |-> a.kwargs]

\* The coroutine object of the i-th dict entry.
Coroutine(i, session, timeout, a) ==
    CASE i = 1 -> _get(session, timeout, a)
      [] i = 2 -> _post(session, timeout, a)
      [] i = 3 -> _put(session, timeout, a)
      [] i = 4 -> _patch(session, timeout, a)
      [] i = 5 -> _delete(session, timeout, a)

GatherAll(d, key) == [i \in 1..Len(VerbKeys) |-> d[VerbKeys[i]]]

\* The awaitables _request hands to asyncio.gather: the one dict.get selects.
GatherArgs(d, key) == <<DictGet(d, key)>>

---------------------------------------------------------------------------
(* Inputs *)

Methods == << <<"G","E","T">>, <<"g","e","t">>, <<"P","o","s","t">>,
              <<"P","U","T">>, <<"p","a","t","c","H">>,
              <<"D","E","L","E","T","E">>, <<"H","E","A","D">> >>

Urls == {"http://a/x", "http://b/y"}
Params == [type |-> "dict", items |-> <<"q", 1>>]
Data == [type |-> "dict", items |-> <<"f", 2>>]
Json == [type |-> "dict", items |-> <<"j", 3>>]

UserHeaders == ("Authorization" :> "Bearer t") @@ ("X-Id" :> "7")

\* **kwargs of request(): none, a headers option, a transport passthrough.
KwargsChoices == << <<>>, [headers |-> UserHeaders], [allow_redirects |-> FALSE] >>

\* params, data and json of request(): none, each kind alone or with the others.
OptionChoices == << [params |-> None, data |-> None, json |-> None],
                    [params |-> Params, data |-> None, json |-> None],
                    [params |-> None, data |-> None, json |-> Json],
                    [params |-> Params, data |-> Data, json |-> Json] >>

\* The values the setter is given.
TimeoutValues == {5}

JsonObjectBody == <<"{", "\"", "a", "\"", ":", "1", "}">>
HtmlBody == <<"<", "h", ">">>
EmptyBody == <<>>

\* What the server may answer.
Responses == << [status |-> 200, body |-> JsonObjectBody],
                [status |-> 200, body |-> HtmlBody],
                [status |-> 204, body |-> EmptyBody] >>

NoResponse == [status |-> 0, body |-> EmptyBody]
NoArgs == [method |-> <<>>, url |-> "", params |-> None, data |-> None,
           json |-> None, kwargs |-> <<>>]
NoResult == [kind |-> "none", exc |-> "", value |-> None]
Raise(e) == [kind |-> "raise", exc |-> e, value |-> None]
Return(v) == [kind |-> "return", exc |-> "", value |-> v]

OpenCount(ss) == Cardinality({i \in 1..Len(ss) : ~ss[i].closed})

---------------------------------------------------------------------------
(* Construction *)

Init ==
    /\ request_timeout = ClientTimeout(DefaultTotal)
    /\ session_timeout = ClientTimeout(DefaultTotal)
    /\ nsets = 0
    /\ ncalls = 0
    /\ pc = "idle"
    /\ args = NoArgs
    /\ start_timeout = ClientTimeout(DefaultTotal)
    /\ idx = 1
    /\ sessions = <<>>
    /\ leaked = 0
    /\ coros = <<>>
    /\ aws = <<>>
    /\ cur = 1
    /\ results = <<>>
    /\ netlog = <<>>
    /\ response = NoResponse
    /\ result = NoResult

---------------------------------------------------------------------------
(* Operations *)

\* The _time_out setter, from another thread.
SetTimeout(value) ==
    /\ nsets < MaxSets
    /\ nsets' = nsets + 1
    /\ request_timeout' = ClientTimeout(value)
    /\ UNCHANGED <<session_timeout, ncalls, pc, args, start_timeout, idx,
                   sessions, leaked, coros, aws, cur, results, netlog,
                   response, result>>

\* request(method=, url=, params=, data=, json=, **kwargs) is entered.
Request(method, url, params, data, json, kwargs) ==
    /\ pc = "idle"
    /\ ncalls < MaxCalls
    /\ ncalls' = ncalls + 1
    /\ args' = [method |-> method, url |-> url, params |-> params,
                data |-> data, json |-> json, kwargs |-> kwargs]
    /\ start_timeout' = request_timeout
    /\ pc' = "session"
    /\ UNCHANGED <<request_timeout, session_timeout, nsets, idx, sessions,
                   leaked, coros, aws, cur, results, netlog, response, result>>

\* session=self._client_session of the idx-th dict entry: a new session
\* with the timeout stored now.
ClientSession ==
    /\ pc = "session"
    /\ sessions' = Append(sessions, [timeout |-> request_timeout, closed |-> FALSE])
    /\ pc' = "bind"
    /\ UNCHANGED <<request_timeout, session_timeout, nsets, ncalls, args,
                   start_timeout, idx, leaked, coros, aws, cur, results,
                   netlog, response, result>>

\* timeout=self._time_out and the call of the idx-th sender, which creates
\* the coroutine object without running it, or fails on a keyword given twice.
BindCoroutine ==
    /\ pc = "bind"
    /\ IF DOMAIN args.kwargs \cap ExplicitKeywords(idx) # {}
       THEN /\ result' = Raise("TypeError")
            /\ pc' = "done"
            /\ UNCHANGED <<coros, idx>>
       ELSE /\ coros' = coros @@
                  (VerbKeys[idx] :> Coroutine(idx, Len(sessions), request_timeout, args))
            /\ idx' = IF idx < Len(VerbKeys) THEN idx + 1 ELSE idx
            /\ pc' = IF idx < Len(VerbKeys) THEN "session" ELSE "gather"
            /\ UNCHANGED result
    /\ UNCHANGED <<request_timeout, session_timeout, nsets, ncalls, args,
                   start_timeout, sessions, leaked, aws, cur, results,
                   netlog, response>>

\* asyncio.gather({...}.get(method.lower())): an argument that is no
\* awaitable is a TypeError.
Gather ==
    /\ pc = "gather"
    /\ LET as == GatherArgs(coros, Lower(args.method)) IN
       IF \E i \in 1..Len(as) : as[i] = None
       THEN /\ result' = Raise("TypeError")
            /\ pc' = "done"
            /\ UNCHANGED aws
       ELSE /\ aws' = as
            /\ pc' = "send"
            /\ UNCHANGED result
    /\ cur' = 1
    /\ UNCHANGED <<request_timeout, session_timeout, nsets, ncalls, args,
                   start_timeout, idx, sessions, leaked, coros, results,
                   netlog, response>>

\* session.<verb>(...) of the awaited coroutine: the request goes out and
\* the server answers.
SendResponse(r) ==
    /\ pc = "send"
    /\ netlog' = Append(netlog, aws[cur])
    /\ response' = r
    /\ pc' = "read"
    /\ UNCHANGED <<request_timeout, session_timeout, nsets, ncalls, args,
                   start_timeout, idx, sessions, leaked, coros, aws, cur,
                   results, result>>

\* session.<verb>(...) of the awaited coroutine: the request goes out and
\* the transport fails or the total timeout passes.
SendFailure(e) ==
    /\ pc = "send"
    /\ netlog' = Append(netlog, aws[cur])
    /\ result' = Raise(e)
    /\ pc' = "done"
    /\ UNCHANGED <<request_timeout, session_timeout, nsets, ncalls, args,
                   start_timeout, idx, sessions, leaked, coros, aws, cur,
                   results, response>>

\* The body of the sender's async with, then session.close() and return;
\* gather returns the list of its awaitables' results.
Read ==
    /\ pc = "read"
    /\ LET co == aws[cur]
           decoded == JsonDecode(response.body)
           failure ==
               IF co.verb = "DELETE" THEN "TypeError"
               ELSE IF ~decoded.ok THEN "JSONDecodeError"
               ELSE ""
       IN
       IF failure # ""
       THEN /\ result' = Raise(failure)
            /\ pc' = "done"
            /\ UNCHANGED <<sessions, results, cur>>
       ELSE /\ sessions' = [sessions EXCEPT ![co.session].closed = TRUE]
            /\ results' = Append(results, decoded.value)
            /\ IF cur < Len(aws)
               THEN /\ cur' = cur + 1
                    /\ pc' = "send"
                    /\ UNCHANGED result
               ELSE /\ result' = Return(PyList(Append(results, decoded.value)))
                    /\ pc' = "done"
                    /\ UNCHANGED cur
    /\ UNCHANGED <<request_timeout, session_timeout, nsets, ncalls, args,
                   start_timeout, idx, leaked, coros, aws, netlog, response>>

\* request() hands the result or the exception to its caller; what the call
\* built is dropped, and the sessions it left open stay open.
Exit ==
    /\ pc = "done"
    /\ pc' = "idle"
    /\ leaked' = leaked + OpenCount(sessions)
    /\ args' = NoArgs
    /\ idx' = 1
    /\ sessions' = <<>>
    /\ coros' = <<>>
    /\ aws' = <<>>
    /\ cur' = 1
    /\ results' = <<>>
    /\ netlog' = <<>>
    /\ response' = NoResponse
    /\ result' = NoResult
    /\ UNCHANGED <<request_timeout, session_timeout, nsets, ncalls,
                   start_timeout>>

Next ==
    \/ \E value \in TimeoutValues : SetTimeout(value)
    \/ \E m \in 1..Len(Methods), url \in Urls,
          o \in 1..Len(OptionChoices), k \in 1..Len(KwargsChoices) :
          Request(Methods[m], url, OptionChoices[o].params,
                  OptionChoices[o].data, OptionChoices[o].json, KwargsChoices[k])
    \/ ClientSession
    \/ BindCoroutine
    \/ Gather
    \/ \E i \in 1..Len(Responses) : SendResponse(Responses[i])
    \/ \E e \in {"ClientConnectorError", "TimeoutError"} : SendFailure(e)
    \/ Read
    \/ Exit

Spec == Init /\ [][Next]_vars

---------------------------------------------------------------------------
(* Vocabulary of the properties *)

UpperChar(c) ==
    IF \E i \in 1..26 : LowerChars[i] = c
    THEN UpperChars[CHOOSE i \in 1..26 : LowerChars[i] = c]
    ELSE c

Upper(s) == [i \in 1..Len(s) |-> UpperChar(s[i])]

\* The verb a method string names in any letter case, "" when it names none.
VerbNamed(m) ==
    CASE Upper(m) = <<"G","E","T">> -> "GET"
      [] Upper(m) = <<"P","O","S","T">> -> "POST"
      [] Upper(m) = <<"P","U","T">> -> "PUT"
      [] Upper(m) = <<"P","A","T","C","H">> -> "PATCH"
      [] Upper(m) = <<"D","E","L","E","T","E">> -> "DELETE"
      [] OTHER -> ""

IsSupported(m) == VerbNamed(m) # ""

HeadersGiven == "headers" \in DOMAIN args.kwargs

\* The caller's headers merged over the defaults.
Merged(defaults, given) ==
    [k \in DOMAIN defaults \cup DOMAIN given |->
        IF k \in DOMAIN given THEN given[k] ELSE defaults[k]]

VerbsSent == {netlog[i].verb : i \in 1..Len(netlog)}

---------------------------------------------------------------------------
(* Properties *)

\* C1: a request() call with a supported method in any letter case (and no
\* headers option) has, when it ends, put exactly one operation on the
\* transport, of the verb the method names and against the url given; at no
\* moment has a call put more than one.
C1_ExactlyOneOperation ==
    /\ Len(netlog) <= 1
    /\ (pc = "done" /\ IsSupported(args.method) /\ ~HeadersGiven) =>
          /\ Len(netlog) = 1
          /\ netlog[1].verb = VerbNamed(args.method)
          /\ netlog[1].url = args.url

C1_Witness ==
    /\ pc = "done"
    /\ args.method = <<"P","o","s","t">>
    /\ Len(netlog) = 1
    /\ netlog[1].verb = "POST"
    /\ netlog[1].url = args.url

\* C2: a GET, POST, PUT or PATCH answered with status 200 and the JSON body
\* {"a": 1} returns the decoded mapping itself, not a container around it.
C2_ReturnsDecodedJson ==
    (/\ pc = "done"
     /\ VerbNamed(args.method) \in {"GET", "POST", "PUT", "PATCH"}
     /\ response = [status |-> 200, body |-> JsonObjectBody]) =>
        result = Return(PyDict("a", 1))

\* C3: a DELETE answered with status 204 and an empty body returns the
\* integer 204.
C3_DeleteReturnsStatus ==
    (/\ pc = "done"
     /\ VerbNamed(args.method) = "DELETE"
     /\ response = [status |-> 204, body |-> EmptyBody]) =>
        result = Return(PyInt(204))

C5_HeadersMerged ==
    (pc = "done" /\ IsSupported(args.method) /\ HeadersGiven) =>
        /\ Len(netlog) = 1
        /\ netlog[1].headers = Merged(header, args.kwargs.headers)

\* C6: the operation a call sends carries, as its per-request timeout and as
\* the timeout of its session, the timeout that was stored when the call
\* began, whatever the setter did since.
C6_TimeoutOfCallStart ==
    \A i \in 1..Len(netlog) :
        /\ netlog[i].timeout = start_timeout
        /\ sessions[netlog[i].session].timeout = start_timeout

\* C7: when a call has ended, every session it created is closed, and no
\* session of an earlier call is open.
C7_NoSessionLeftOpen ==
    pc \in {"done", "idle"} => (OpenCount(sessions) = 0 /\ leaked = 0)

\* C8: a call that sent its operation created exactly one session.
C8_OneSessionPerCall ==
    (pc = "done" /\ Len(netlog) >= 1) => Len(sessions) = 1

\* C9 (as claimed): a call that returns has sent one GET, one POST, one PUT,
\* one PATCH and one DELETE.
C9_FiresAllFive ==
    (pc = "done" /\ IsSupported(args.method) /\ result.kind = "return") =>
        /\ Len(netlog) = 5
        /\ VerbsSent = {"GET", "POST", "PUT", "PATCH", "DELETE"}

\* C9 (amended): once a call has dispatched, it has built all five
\* coroutine objects, each with a session of its own, and awaits one of
\* them, the one its method names: no operation of another verb is ever
\* sent, and the sessions of the other four are never closed.
C9_OnlySelectedAwaited ==
    Len(aws) > 0 =>
        /\ Cardinality(DOMAIN coros) = 5
        /\ Len(sessions) = 5
        /\ Len(aws) = 1
        /\ aws[1].verb = VerbNamed(args.method)
        /\ VerbsSent \subseteq {VerbNamed(args.method)}
        /\ \A s \in 1..Len(sessions) :
              s # aws[1].session => ~sessions[s].closed

C9_Witness ==
    /\ pc = "done"
    /\ result.kind = "return"
    /\ Cardinality(DOMAIN coros) = 5
    /\ Len(netlog) = 1
    /\ OpenCount(sessions) = 4

====
